---- MODULE Spec2Model ----
(***************************************************************************)
(* Model of SimpleMemoryAllocator (src/OSProject.py): a linear arena with  *)
(* best-fit / worst-fit placement, merge-on-free, and a randomized         *)
(* evaluation procedure that runs on the arena itself and restores it.     *)
(*                                                                         *)
(* free_blocks is a sequence of <<start, size>> in list order,             *)
(* allocations is a function from live ids to <<start, size>>.             *)
(* Sequence indices are 1-based here and 0-based in the source; the        *)
(* tuple `best` is <<i, start, block_size>>, so the source's best[1] is    *)
(* best[2] here and the source's best[2] is best[3].                       *)
(*                                                                         *)
(* avg_fragmentation is total_fragmentation / operations and operations    *)
(* is EvalSteps at the end of every run, so averages are carried as their  *)
(* integer numerators over the common denominator EvalSteps.               *)
(***************************************************************************)
EXTENDS Integers, Sequences, FiniteSets, TLC

\* ---------------------------------------------------------------- bounds
Total == 6
MaxSize == 3
MaxId == 2
EvalSteps == 1
EvalMinSize == 1
EvalMaxSize == 2
MaxTests == 1

Algorithms == {"best", "worst"}
None == <<>>
\* the value allocate returns on failure (ids start at 1)
NONE == 0

VARIABLES
    total, free_blocks, allocations, next_id, best_algorithm,
    algorithm_stats,
    \* position inside evaluate_algorithm / determine_best_algorithm, the
    \* locals of evaluate_algorithm, and the iterations run_test has left
    pc, caller, algorithm, testLeft,
    original_allocations, original_free_blocks, original_next_id,
    test_results, operations, best_stats,
    \* history: the last call and its arguments, result and pre-state; the
    \* snapshot at the entry of the last top-level call; the ids returned by
    \* allocate outside evaluation runs, inside the current run, and ever
    \* the frees done in the current evaluation run; the calls made so far
    \* (kept only by the scenario specification)
    last, entryStats, issued, evalIssued, allIssued, evalFrees, trace

vars == <<total, free_blocks, allocations, next_id, best_algorithm,
          algorithm_stats, pc, caller, algorithm, testLeft,
          original_allocations, original_free_blocks, original_next_id,
          test_results, operations, best_stats,
          last, entryStats, issued, evalIssued, allIssued, evalFrees, trace>>

\* ------------------------------------------------------- pure helpers
EmptyMap == [x \in {} |-> <<0, 0>>]

RECURSIVE SumSizes(_)
SumSizes(s) == IF s = <<>> THEN 0 ELSE s[1][2] + SumSizes(Tail(s))

RECURSIVE SumAlloc(_, _)
SumAlloc(al, ids) ==
    IF ids = {} THEN 0
    ELSE LET k == CHOOSE x \in ids : TRUE
         IN al[k][2] + SumAlloc(al, ids \ {k})

TupleLessDescending(a, b) == b[1] < a[1] \/ (a[1] = b[1] /\ b[2] < a[2])

\* tuple comparison of list.sort(): by start, then by size
TupleLess(a, b) == a[1] < b[1] \/ (a[1] = b[1] /\ a[2] < b[2])

InsertSortedFront(s, x) == <<x>> \o s

RECURSIVE InsertSorted(_, _)
InsertSorted(s, x) ==
    IF s = <<>> THEN <<x>>
    ELSE IF TupleLess(x, s[1]) THEN <<x>> \o s
    ELSE <<s[1]>> \o InsertSorted(Tail(s), x)

RECURSIVE SortBlocks(_)
SortBlocks(s) ==
    IF s = <<>> THEN <<>>
    ELSE InsertSorted(SortBlocks(Tail(s)), s[1])

PopFirst(s, i) == Tail(s)

\* list.pop(i)
Pop(s, i) == [k \in 1..(Len(s) - 1) |-> IF k < i THEN s[k] ELSE s[k + 1]]

\* ------------------------------------------------------ _merge_blocks
RECURSIVE MergeLoopDropSize(_, _)
MergeLoopDropSize(merged, rest) ==
    IF rest = <<>> THEN merged
    ELSE LET lst == merged[Len(merged)]
             current == rest[1]
         IN IF lst[1] + lst[2] = current[1]
            THEN MergeLoopDropSize(merged, Tail(rest))
            ELSE MergeLoopDropSize(Append(merged, current), Tail(rest))

RECURSIVE MergeLoopOnce(_, _)
MergeLoopOnce(merged, rest) ==
    IF rest = <<>> THEN merged
    ELSE LET lst == merged[Len(merged)]
             current == rest[1]
         IN IF lst[1] + lst[2] = current[1]
            THEN [merged EXCEPT ![Len(merged)] =
                     <<lst[1], lst[2] + current[2]>>] \o Tail(rest)
            ELSE MergeLoopOnce(Append(merged, current), Tail(rest))

\* the loop of _merge_blocks, lines 60-65
RECURSIVE MergeLoop(_, _)
MergeLoop(merged, rest) ==
    IF rest = <<>> THEN merged
    ELSE LET lst == merged[Len(merged)]
             current == rest[1]
         IN IF lst[1] + lst[2] = current[1]
            THEN MergeLoop([merged EXCEPT ![Len(merged)] =
                               <<lst[1], lst[2] + current[2]>>], Tail(rest))
            ELSE MergeLoop(Append(merged, current), Tail(rest))

merge_blocks_unsorted(fb) ==
    IF fb = <<>> THEN fb
    ELSE MergeLoop(<<fb[1]>>, Tail(fb))

\* _merge_blocks, lines 53-67
merge_blocks(fb) ==
    IF fb = <<>> THEN fb
    ELSE LET s == SortBlocks(fb)
         IN MergeLoop(<<s[1]>>, Tail(s))

\* ----------------------------------------------------------- allocate
\* best-fit scan, lines 19-22: the guard compares block_size with best[1],
\* which is the start address of the current candidate
RECURSIVE BestScan(_, _, _, _)
BestScan(fb, size, i, best) ==
    IF i > Len(fb) THEN best
    ELSE LET start == fb[i][1]
             block_size == fb[i][2]
         IN IF block_size >= size /\ (best = None \/ block_size < best[2])
            THEN BestScan(fb, size, i + 1, <<i, start, block_size>>)
            ELSE BestScan(fb, size, i + 1, best)

RECURSIVE WorstScanStrict(_, _, _, _)
WorstScanStrict(fb, size, i, best) ==
    IF i > Len(fb) THEN best
    ELSE LET start == fb[i][1]
             block_size == fb[i][2]
         IN IF block_size > size /\ (best = None \/ block_size > best[3])
            THEN WorstScanStrict(fb, size, i + 1, <<i, start, block_size>>)
            ELSE WorstScanStrict(fb, size, i + 1, best)

RECURSIVE WorstScanLastTie(_, _, _, _)
WorstScanLastTie(fb, size, i, best) ==
    IF i > Len(fb) THEN best
    ELSE LET start == fb[i][1]
             block_size == fb[i][2]
         IN IF block_size >= size /\ (best = None \/ block_size >= best[3])
            THEN WorstScanLastTie(fb, size, i + 1, <<i, start, block_size>>)
            ELSE WorstScanLastTie(fb, size, i + 1, best)

\* worst-fit scan, lines 24-27
RECURSIVE WorstScan(_, _, _, _)
WorstScan(fb, size, i, best) ==
    IF i > Len(fb) THEN best
    ELSE LET start == fb[i][1]
             block_size == fb[i][2]
         IN IF block_size >= size /\ (best = None \/ block_size > best[3])
            THEN WorstScan(fb, size, i + 1, <<i, start, block_size>>)
            ELSE WorstScan(fb, size, i + 1, best)

ChooseStrictFit(fb, size, alg) ==
    IF alg = "best" THEN BestScan(fb, size + 1, 1, None)
    ELSE WorstScan(fb, size + 1, 1, None)

\* lines 18-27: the scan selected by the algorithm argument
Choose(fb, size, alg) ==
    IF alg = "best" THEN BestScan(fb, size, 1, None)
    ELSE WorstScan(fb, size, 1, None)

RemainderAtStart(start, size, remaining) == <<start, remaining>>

\* line 37: the free region left over by a split
Remainder(start, size, remaining) == <<start + size, remaining>>

NextIdStuck(nid) == nid

\* line 41
NextId(nid) == nid + 1

\* allocate, lines 17-42: result record [ret, fb, al, nid, best]
allocate(fb, al, nid, size, alg) ==
    LET best == Choose(fb, size, alg)
    IN IF best = None
       THEN [ret |-> NONE, fb |-> fb, al |-> al, nid |-> nid, best |-> None]
       ELSE LET i == best[1]
                start == best[2]
                block_size == best[3]
                popped == Pop(fb, i)
                remaining == block_size - size
                fb2 == IF remaining > 0
                       THEN Append(popped, Remainder(start, size, remaining))
                       ELSE popped
                alloc_id == nid
                al2 == [k \in DOMAIN al \cup {alloc_id} |->
                           IF k = alloc_id THEN <<start, size>> ELSE al[k]]
            IN [ret |-> alloc_id, fb |-> fb2, al |-> al2,
                nid |-> NextId(nid), best |-> best]

\* --------------------------------------------------------------- free
freeKeepsAllocation(fb, al, alloc_id) ==
    IF alloc_id \notin DOMAIN al
    THEN [ret |-> FALSE, fb |-> fb, al |-> al]
    ELSE [ret |-> TRUE, fb |-> fb, al |-> al]

freeNoMerge(fb, al, alloc_id) ==
    IF alloc_id \notin DOMAIN al
    THEN [ret |-> FALSE, fb |-> fb, al |-> al]
    ELSE [ret |-> TRUE, fb |-> Append(fb, al[alloc_id]),
          al |-> [k \in DOMAIN al \ {alloc_id} |-> al[k]]]

\* free, lines 44-51: result record [ret, fb, al]
free(fb, al, alloc_id) ==
    IF alloc_id \notin DOMAIN al
    THEN [ret |-> FALSE, fb |-> fb, al |-> al]
    ELSE LET blk == al[alloc_id]
             al2 == [k \in DOMAIN al \ {alloc_id} |-> al[k]]
         IN [ret |-> TRUE, fb |-> merge_blocks(Append(fb, blk)), al |-> al2]

\* ------------------------------------------- get_stats, lines 69-80
get_stats(fb, al) ==
    [total |-> total,
     used |-> SumAlloc(al, DOMAIN al),
     free |-> SumSizes(fb),
     fragments |-> Len(fb),
     allocations |-> Cardinality(DOMAIN al),
     fragmentation |-> IF Len(fb) > 1 THEN Len(fb) - 1 ELSE 0]

\* ------------------------------------------------------------ history
NoLast == [op |-> "init", ctx |-> "caller", alg |-> "best", size |-> 0,
           id |-> 0, ret |-> NONE, best |-> None,
           preFree |-> <<>>, preAllocs |-> EmptyMap, preNext |-> 0,
           preIssued |-> {}, preAll |-> {},
           \* free: whether it frees the id the call before it allocated,
           \* with the free space and region count before that allocate
           undo |-> [on |-> FALSE, free |-> 0, fragments |-> 0],
           \* evaluate: the arena at the entry of the run, the run's counts
           entry |-> [fb |-> <<>>, al |-> EmptyMap, nid |-> 0],
           counts |-> [success |-> 0, failed |-> 0, frees |-> 0, ops |-> 0],
           \* determine: the statistics before it and the two runs' figures
           preStats |-> [best |-> [fragmentation |-> 0, tests |-> 0],
                         worst |-> [fragmentation |-> 0, tests |-> 0]],
           runBest |-> 0, runWorst |-> 0,
           \* the preferred strategy before the operation
           prePreferred |-> "best"]

NoResults == [success |-> 0, failed |-> 0, total_fragmentation |-> 0]

\* ------------------------------------------------------------- __init__
InitArena(total_memory) ==
    /\ total = total_memory
    /\ free_blocks = <<<<0, total_memory>>>>
    /\ allocations = EmptyMap
    /\ next_id = 1
    /\ best_algorithm = "best"
    /\ algorithm_stats = [best |-> [fragmentation |-> 0, tests |-> 0],
                          worst |-> [fragmentation |-> 0, tests |-> 0]]
    /\ pc = "idle"
    /\ caller = "none"
    /\ algorithm = "best"
    /\ testLeft = 0
    /\ original_allocations = EmptyMap
    /\ original_free_blocks = <<>>
    /\ original_next_id = 0
    /\ test_results = NoResults
    /\ operations = 0
    /\ best_stats = 0
    /\ last = NoLast
    /\ entryStats = get_stats(<<<<0, total_memory>>>>, EmptyMap)
    /\ issued = {}
    /\ evalIssued = {}
    /\ allIssued = {}
    /\ evalFrees = 0
    /\ trace = <<>>

Init == InitArena(Total)

EvalLocalsUnchanged ==
    UNCHANGED <<pc, caller, algorithm, original_allocations,
                original_free_blocks, original_next_id, test_results,
                operations, best_stats, evalIssued, evalFrees>>

\* whether free(alloc_id) undoes the allocate made by the call before it
UndoOf(alloc_id) ==
    IF last.op = "allocate" /\ last.ret # NONE /\ last.ret = alloc_id
    THEN [on |-> TRUE, free |-> SumSizes(last.preFree),
          fragments |-> Len(last.preFree)]
    ELSE NoLast.undo

\* a call of allocate(size, alg) from outside the evaluator
AllocateCall(size, alg, ctx) ==
    /\ pc = "idle"
    /\ LET r == allocate(free_blocks, allocations, next_id, size, alg)
       IN /\ free_blocks' = r.fb
          /\ allocations' = r.al
          /\ next_id' = r.nid
          /\ last' = [NoLast EXCEPT
                        !.op = "allocate", !.ctx = ctx, !.alg = alg,
                        !.size = size, !.ret = r.ret, !.best = r.best,
                        !.preFree = free_blocks, !.preAllocs = allocations,
                        !.preNext = next_id, !.preIssued = issued,
                        !.preAll = allIssued,
                        !.prePreferred = best_algorithm]
          /\ issued' = IF r.ret = NONE THEN issued ELSE issued \cup {r.ret}
          /\ allIssued' = IF r.ret = NONE THEN allIssued
                          ELSE allIssued \cup {r.ret}
    /\ entryStats' = get_stats(free_blocks, allocations)
    /\ UNCHANGED <<total, best_algorithm, algorithm_stats>>
    /\ EvalLocalsUnchanged

\* a call of free(alloc_id) from outside the evaluator
FreeCall(alloc_id, ctx) ==
    /\ pc = "idle"
    /\ LET r == free(free_blocks, allocations, alloc_id)
       IN /\ free_blocks' = r.fb
          /\ allocations' = r.al
          /\ last' = [NoLast EXCEPT
                        !.op = "free", !.ctx = ctx, !.id = alloc_id,
                        !.ret = r.ret,
                        !.preFree = free_blocks, !.preAllocs = allocations,
                        !.preNext = next_id, !.preIssued = issued,
                        !.preAll = allIssued,
                  !.prePreferred = best_algorithm,
                        !.undo = UndoOf(alloc_id)]
    /\ entryStats' = get_stats(free_blocks, allocations)
    /\ UNCHANGED <<total, next_id, best_algorithm, algorithm_stats, issued,
                   allIssued>>
    /\ EvalLocalsUnchanged

Allocate(size, alg) ==
    /\ next_id <= MaxId
    /\ AllocateCall(size, alg, "caller")
    /\ UNCHANGED <<testLeft, trace>>

Free(alloc_id) ==
    /\ FreeCall(alloc_id, "caller")
    /\ UNCHANGED <<testLeft, trace>>

\* evaluate_algorithm, lines 85-91: save the state, zero the counters
EnterEvaluation(alg, who) ==
    /\ original_allocations' = allocations
    /\ original_free_blocks' = free_blocks
    /\ original_next_id' = next_id
    /\ test_results' = NoResults
    /\ operations' = 0
    /\ algorithm' = alg
    /\ caller' = who
    /\ pc' = "eval"
    /\ entryStats' = get_stats(free_blocks, allocations)
    /\ evalIssued' = {}
    /\ evalFrees' = 0
    /\ last' = [NoLast EXCEPT !.op = "enter", !.ctx = who, !.alg = alg,
                              !.preFree = free_blocks,
                              !.preAllocs = allocations,
                              !.preNext = next_id, !.preIssued = issued,
                              !.preAll = allIssued,
                              !.prePreferred = best_algorithm]
    /\ UNCHANGED <<total, free_blocks, allocations, next_id, best_algorithm,
                   algorithm_stats, issued, allIssued, testLeft, trace>>

Evaluate(alg) ==
    /\ pc = "idle"
    /\ EnterEvaluation(alg, "evaluate")
    /\ UNCHANGED best_stats

\* determine_best_algorithm, line 129
Determine ==
    /\ pc = "idle"
    /\ algorithm_stats.best.tests < MaxTests
    /\ EnterEvaluation("best", "determine")
    /\ UNCHANGED best_stats

\* determine_best_algorithm, line 130
DetermineSecond ==
    /\ pc = "second"
    /\ EnterEvaluation("worst", "determine")
    /\ UNCHANGED best_stats

TallyDropsFailed(tr, ok, frag) ==
    [tr EXCEPT !.success = IF ok THEN @ + 1 ELSE @,
               !.total_fragmentation = @ + frag]

\* lines 97-100 and 106-107: count the attempt, add the fragmentation
Tally(tr, ok, frag) ==
    [tr EXCEPT !.success = IF ok THEN @ + 1 ELSE @,
               !.failed = IF ok THEN @ ELSE @ + 1,
               !.total_fragmentation = @ + frag]

\* line 94 (and line 300): the free branch needs a live allocation
FreeBranchAllowed(al) == DOMAIN al # {}

\* one loop iteration taking the allocation branch, lines 94-100, 106-108
EvalStepAllocate(size) ==
    /\ pc = "eval"
    /\ operations < EvalSteps
    /\ LET r == allocate(free_blocks, allocations, next_id, size, algorithm)
       IN /\ free_blocks' = r.fb
          /\ allocations' = r.al
          /\ next_id' = r.nid
          /\ test_results' = Tally(test_results, r.ret # NONE,
                                   get_stats(r.fb, r.al).fragmentation)
          /\ last' = [NoLast EXCEPT
                        !.op = "allocate", !.ctx = "eval", !.alg = algorithm,
                        !.size = size, !.ret = r.ret, !.best = r.best,
                        !.preFree = free_blocks, !.preAllocs = allocations,
                        !.preNext = next_id, !.preIssued = evalIssued,
                        !.preAll = allIssued,
                        !.prePreferred = best_algorithm]
          /\ evalIssued' = IF r.ret = NONE THEN evalIssued
                           ELSE evalIssued \cup {r.ret}
          /\ allIssued' = IF r.ret = NONE THEN allIssued
                          ELSE allIssued \cup {r.ret}
    /\ operations' = operations + 1
    /\ UNCHANGED <<total, best_algorithm, algorithm_stats, pc, caller,
                   algorithm, original_allocations, original_free_blocks,
                   original_next_id, best_stats, entryStats, issued,
                   evalFrees, testLeft, trace>>

\* one loop iteration taking the free branch, lines 101-108
EvalStepFree(id) ==
    /\ pc = "eval"
    /\ operations < EvalSteps
    /\ FreeBranchAllowed(allocations)
    /\ id \in DOMAIN allocations
    /\ LET r == free(free_blocks, allocations, id)
       IN /\ free_blocks' = r.fb
          /\ allocations' = r.al
          /\ test_results' =
               [test_results EXCEPT
                  !.total_fragmentation =
                      @ + get_stats(r.fb, r.al).fragmentation]
          /\ last' = [NoLast EXCEPT
                        !.op = "free", !.ctx = "eval", !.id = id,
                        !.ret = r.ret,
                        !.preFree = free_blocks, !.preAllocs = allocations,
                        !.preNext = next_id, !.preIssued = evalIssued,
                        !.preAll = allIssued,
                  !.prePreferred = best_algorithm,
                        !.undo = UndoOf(id)]
    /\ operations' = operations + 1
    /\ evalFrees' = evalFrees + 1
    /\ UNCHANGED <<total, next_id, best_algorithm, algorithm_stats, pc,
                   caller, algorithm, original_allocations,
                   original_free_blocks, original_next_id, best_stats,
                   entryStats, issued, evalIssued, allIssued, testLeft,
                   trace>>

RestoreKeepBlocks(fb, orig) == merge_blocks(fb)

\* lines 116-120: the free list after the restore
Restore(fb, orig) == merge_blocks(orig)

SelectAlgorithmStrict(st) ==
    IF st.best.fragmentation * st.worst.tests
         < st.worst.fragmentation * st.best.tests
    THEN "best" ELSE "worst"

\* lines 139-145: best_avg <= worst_avg, cross-multiplied (tests > 0)
SelectAlgorithm(st) ==
    IF st.best.fragmentation * st.worst.tests
         <= st.worst.fragmentation * st.best.tests
    THEN "best" ELSE "worst"

\* lines 110-125, then the rest of the caller (lines 130-150)
EvalFinish ==
    /\ pc = "eval"
    /\ operations = EvalSteps
    /\ allocations' = original_allocations
    /\ free_blocks' = Restore(free_blocks, original_free_blocks)
    /\ next_id' = original_next_id
    /\ last' = [NoLast EXCEPT
                  !.op = "evaluate", !.ctx = caller, !.alg = algorithm,
                  !.preFree = free_blocks, !.preAllocs = allocations,
                  !.preNext = next_id, !.preIssued = issued,
                  !.preAll = allIssued,
                  !.prePreferred = best_algorithm,
                  !.entry = [fb |-> original_free_blocks,
                             al |-> original_allocations,
                             nid |-> original_next_id],
                  !.counts = [success |-> test_results.success,
                              failed |-> test_results.failed,
                              frees |-> evalFrees, ops |-> operations],
                  !.preStats = algorithm_stats,
                  !.runBest = IF algorithm = "best"
                              THEN test_results.total_fragmentation
                              ELSE best_stats,
                  !.runWorst = IF algorithm = "worst"
                               THEN test_results.total_fragmentation
                               ELSE 0]
    /\ original_allocations' = EmptyMap
    /\ original_free_blocks' = <<>>
    /\ original_next_id' = 0
    /\ test_results' = NoResults
    /\ operations' = 0
    /\ evalIssued' = {}
    /\ evalFrees' = 0
    /\ UNCHANGED <<total, entryStats, issued, allIssued, testLeft, trace>>
    /\ IF caller = "evaluate"
       THEN /\ pc' = "idle"
            /\ caller' = "none"
            /\ algorithm' = "best"
            /\ UNCHANGED <<best_stats, algorithm_stats, best_algorithm>>
       ELSE IF algorithm = "best"
       THEN /\ pc' = "second"
            /\ best_stats' = test_results.total_fragmentation
            /\ UNCHANGED <<caller, algorithm, algorithm_stats,
                           best_algorithm>>
       ELSE LET worst_stats == test_results.total_fragmentation
                st == [best |-> [fragmentation |->
                                   algorithm_stats.best.fragmentation
                                     + best_stats,
                                 tests |-> algorithm_stats.best.tests + 1],
                       worst |-> [fragmentation |->
                                    algorithm_stats.worst.fragmentation
                                      + worst_stats,
                                  tests |-> algorithm_stats.worst.tests + 1]]
            IN /\ algorithm_stats' = st
               /\ best_algorithm' = SelectAlgorithm(st)
               /\ pc' = "idle"
               /\ caller' = "none"
               /\ algorithm' = "best"
               /\ best_stats' = 0

\* the sizes a caller of the allocator asks for: the small ones, the whole
\* arena and one more than the whole arena
AllocSizes == (1..MaxSize) \cup {total, total + 1}

Next ==
    \/ \E size \in AllocSizes, alg \in Algorithms : Allocate(size, alg)
    \/ \E id \in 1..(MaxId + 1) : Free(id)
    \/ \E alg \in Algorithms : Evaluate(alg)
    \/ Determine
    \/ DetermineSecond
    \/ \E size \in EvalMinSize..EvalMaxSize : EvalStepAllocate(size)
    \/ \E id \in DOMAIN allocations : EvalStepFree(id)
    \/ EvalFinish

Spec == Init /\ [][Next]_vars

\* ----------------------------------------- allocator with more live ids
\* allocate, free and evaluate_algorithm alone, with room for one more id
MaxIdWide == 3

AllocateWide(size, alg) ==
    /\ next_id <= MaxIdWide
    /\ AllocateCall(size, alg, "caller")
    /\ UNCHANGED <<testLeft, trace>>

NextWide ==
    \/ \E size \in 1..MaxSize, alg \in Algorithms : AllocateWide(size, alg)
    \/ \E id \in 1..(MaxIdWide + 1) : Free(id)
    \/ \E alg \in Algorithms : Evaluate(alg)
    \/ \E size \in EvalMinSize..EvalMaxSize : EvalStepAllocate(size)
    \/ \E id \in DOMAIN allocations : EvalStepFree(id)
    \/ EvalFinish

SpecWide == Init /\ [][NextWide]_vars

\* ------------------------------------------- SimplePerformanceApp
\* the handlers of the application window that call the allocator
RunTestSteps == 1

\* the capacity of the arena the window creates
AppTotal == 3

AppInit == InitArena(AppTotal)

\* what the size entry can hold: text that int() refuses, or an integer
Entries ==
    {[kind |-> "junk", val |-> 0]}
        \cup {[kind |-> "int", val |-> n] : n \in (0 - 1)..EvalMaxSize}

\* what the id entry can hold
IdEntries ==
    {[kind |-> "junk", val |-> 0]}
        \cup {[kind |-> "int", val |-> n] : n \in 0..MaxIdWide}

\* lines 272 and 288: int() raises on the entry's text
ParseFails(entry) == entry.kind # "int"

RejectsNegative(size) == size < 0

\* line 273
Rejects(size) == size <= 0

CallerAlgorithmDefault(preferred) == "best"

\* lines 280 and 302: the strategy argument the handlers pass
CallerAlgorithm(preferred) == preferred

\* lines 275-277 and 289-291: the handler shows an error and returns
HandlerReturnsEarly(op, ctx, value) ==
    /\ pc = "idle"
    /\ last' = [NoLast EXCEPT !.op = op, !.ctx = ctx, !.size = value,
                              !.prePreferred = best_algorithm]
    /\ UNCHANGED <<total, free_blocks, allocations, next_id, best_algorithm,
                   algorithm_stats, entryStats, issued, allIssued, testLeft,
                   trace>>
    /\ EvalLocalsUnchanged

\* do_allocate, lines 270-284
DoAllocate(entry) ==
    IF ParseFails(entry)
    THEN HandlerReturnsEarly("error", "do_allocate", 0)
    ELSE IF Rejects(entry.val)
    THEN HandlerReturnsEarly("rejected", "do_allocate", entry.val)
    ELSE /\ next_id <= MaxIdWide
         /\ AllocateCall(entry.val, CallerAlgorithm(best_algorithm),
                         "do_allocate")
         /\ UNCHANGED <<testLeft, trace>>

\* do_free, lines 286-296
DoFree(entry) ==
    IF ParseFails(entry)
    THEN HandlerReturnsEarly("error", "do_free", 0)
    ELSE /\ FreeCall(entry.val, "do_free")
         /\ UNCHANGED <<testLeft, trace>>

\* run_test, line 299: the loop starts; each iteration ends in root.update(),
\* which lets the other handlers run before the next iteration
RunTest ==
    /\ pc = "idle"
    /\ testLeft = 0
    /\ testLeft' = RunTestSteps
    /\ last' = [NoLast EXCEPT !.op = "run_test", !.ctx = "run_test",
                              !.prePreferred = best_algorithm]
    /\ UNCHANGED <<total, free_blocks, allocations, next_id, best_algorithm,
                   algorithm_stats, entryStats, issued, allIssued, trace>>
    /\ EvalLocalsUnchanged

\* one iteration of run_test taking the allocation branch, lines 300-302
RunTestAllocate(size) ==
    /\ testLeft > 0
    /\ next_id <= MaxIdWide
    /\ AllocateCall(size, CallerAlgorithm(best_algorithm), "run_test")
    /\ testLeft' = testLeft - 1
    /\ UNCHANGED trace

\* one iteration of run_test taking the free branch, lines 303-305
RunTestFree(id) ==
    /\ testLeft > 0
    /\ FreeBranchAllowed(allocations)
    /\ id \in DOMAIN allocations
    /\ FreeCall(id, "run_test")
    /\ testLeft' = testLeft - 1
    /\ UNCHANGED trace

\* evaluate_algorithms (lines 311-320) is Determine and the steps after it
NextApp ==
    \/ \E entry \in Entries : DoAllocate(entry)
    \/ \E entry \in IdEntries : DoFree(entry)
    \/ RunTest
    \/ \E size \in EvalMinSize..EvalMaxSize : RunTestAllocate(size)
    \/ \E id \in DOMAIN allocations : RunTestFree(id)
    \/ Determine
    \/ DetermineSecond
    \/ \E size \in EvalMinSize..EvalMaxSize : EvalStepAllocate(size)
    \/ \E id \in DOMAIN allocations : EvalStepFree(id)
    \/ EvalFinish

AppSpec == AppInit /\ [][NextApp]_vars

\* ------------------------------------------------ the worked scenario
\* an arena of capacity 100 and the calls a client can make on it, with the
\* sizes of the scenario; trace keeps the calls made so far
ScenarioLen == 4

ScenarioSizes == {30, 40}

ScenarioInit == InitArena(100)

ScenarioAllocate(size, alg) ==
    /\ Len(trace) < ScenarioLen
    /\ AllocateCall(size, alg, "caller")
    /\ trace' = Append(trace, <<"allocate", size, alg>>)
    /\ UNCHANGED testLeft

ScenarioFree(alloc_id) ==
    /\ Len(trace) < ScenarioLen
    /\ FreeCall(alloc_id, "caller")
    /\ trace' = Append(trace, <<"free", alloc_id, "none">>)
    /\ UNCHANGED testLeft

ScenarioNext ==
    \/ \E size \in ScenarioSizes, alg \in Algorithms :
          ScenarioAllocate(size, alg)
    \/ \E id \in 1..ScenarioLen : ScenarioFree(id)

ScenarioSpec == ScenarioInit /\ [][ScenarioNext]_vars

\* ------------------------------------------------- vocabulary of claims
Cells(blk) == blk[1]..(blk[1] + blk[2] - 1)

FreeCells(fb) == UNION {Cells(fb[k]) : k \in DOMAIN fb}

AllocCells(al) == UNION {Cells(al[a]) : a \in DOMAIN al}

BlockSet(fb) == {fb[k] : k \in DOMAIN fb}

Fits(fb, size) == {k \in DOMAIN fb : fb[k][2] >= size}

SortedByStart(fb) ==
    \A k \in DOMAIN fb : \A m \in DOMAIN fb : k < m => fb[k][1] < fb[m][1]

NoAdjacent(fb) ==
    \A k \in DOMAIN fb : \A m \in DOMAIN fb : fb[k][1] + fb[k][2] # fb[m][1]

AllocateDone == last.op = "allocate" /\ last.ret # NONE

\* C1: in every reachable state, the intermediate states of an evaluation
\* run included, the free regions and the live allocation intervals are
\* pairwise disjoint and together cover exactly [0, total).
C1_Partition ==
    /\ \A k \in DOMAIN free_blocks : \A m \in DOMAIN free_blocks :
          k # m => Cells(free_blocks[k]) \cap Cells(free_blocks[m]) = {}
    /\ \A a \in DOMAIN allocations : \A b \in DOMAIN allocations :
          a # b => Cells(allocations[a]) \cap Cells(allocations[b]) = {}
    /\ \A k \in DOMAIN free_blocks : \A a \in DOMAIN allocations :
          Cells(free_blocks[k]) \cap Cells(allocations[a]) = {}
    /\ FreeCells(free_blocks) \cup AllocCells(allocations) = 0..(total - 1)

C1_Witness ==
    /\ pc = "eval"
    /\ operations = EvalSteps
    /\ last.op = "free"
    /\ Len(free_blocks) >= 2
    /\ Cardinality(DOMAIN allocations) >= 1

\* C2: a successful best-fit allocate takes a region of minimum size among
\* the regions that fit, and the first such region in scan order.
C2_BestFitSmallestFirst ==
    (AllocateDone /\ last.alg = "best") =>
        LET F == Fits(last.preFree, last.size)
            i == last.best[1]
        IN /\ i \in F
           /\ allocations[last.ret] = <<last.preFree[i][1], last.size>>
           /\ \A k \in F : last.preFree[k][2] >= last.preFree[i][2]
           /\ \A k \in F : last.preFree[k][2] = last.preFree[i][2] => k >= i

\* C3: a successful worst-fit allocate takes a region of maximum size among
\* the regions that fit, and the first such region in scan order.
C3_WorstFitLargestFirst ==
    (AllocateDone /\ last.alg = "worst") =>
        LET F == Fits(last.preFree, last.size)
            i == last.best[1]
        IN /\ i \in F
           /\ allocations[last.ret] = <<last.preFree[i][1], last.size>>
           /\ \A k \in F : last.preFree[k][2] <= last.preFree[i][2]
           /\ \A k \in F : last.preFree[k][2] = last.preFree[i][2] => k >= i

C3_Witness ==
    /\ AllocateDone
    /\ last.alg = "worst"
    /\ \E k \in Fits(last.preFree, last.size) :
          /\ k # last.best[1]
          /\ last.preFree[k][2] = last.best[3]
    /\ last.preAllocs # EmptyMap

\* C4: allocate returns NONE exactly when no free region is large enough,
\* and then the free list, the allocation table and the id counter are
\* unchanged.
C4_FailureExactAndFrame ==
    last.op = "allocate" =>
        /\ (last.ret = NONE) <=> (Fits(last.preFree, last.size) = {})
        /\ last.ret = NONE =>
              /\ free_blocks = last.preFree
              /\ allocations = last.preAllocs
              /\ next_id = last.preNext

C4_Witness ==
    /\ last.op = "allocate"
    /\ last.ret = NONE
    /\ Len(last.preFree) >= 1
    /\ last.preAllocs # EmptyMap

\* C5: free(id) of an id that is not live returns false and changes nothing;
\* of a live id it returns true, the id is no longer live and every address
\* of the freed interval is free afterwards.
C5_FreeResult ==
    last.op = "free" =>
        IF last.id \notin DOMAIN last.preAllocs
        THEN /\ last.ret = FALSE
             /\ free_blocks = last.preFree
             /\ allocations = last.preAllocs
             /\ next_id = last.preNext
        ELSE /\ last.ret = TRUE
             /\ last.id \notin DOMAIN allocations
             /\ Cells(last.preAllocs[last.id]) \subseteq FreeCells(free_blocks)

C5_Witness ==
    /\ last.op = "free"
    /\ last.ret = TRUE
    /\ last.id \in DOMAIN last.preAllocs
    /\ last.id \in allIssued
    /\ allocations # EmptyMap

\* C6: in every reachable state the snapshot has used + free = total.
C6_UsedPlusFree ==
    LET st == get_stats(free_blocks, allocations)
    IN st.used + st.free = st.total

C6_Witness ==
    LET st == get_stats(free_blocks, allocations)
    IN /\ st.used > 0
       /\ st.fragments >= 2
       /\ st.allocations >= 1
       /\ last.op = "free"
       /\ last.ret = TRUE

\* C7: after a successful free the free list is sorted by start address,
\* has no region ending where another starts, and covers exactly the
\* addresses free before the call plus the freed interval.
C7_FreeCoalesces ==
    (last.op = "free" /\ last.ret = TRUE) =>
        /\ SortedByStart(free_blocks)
        /\ NoAdjacent(free_blocks)
        /\ FreeCells(free_blocks) =
              FreeCells(last.preFree) \cup Cells(last.preAllocs[last.id])

C7_Witness ==
    /\ last.op = "free"
    /\ last.ret = TRUE
    /\ \E k \in DOMAIN last.preFree :
          last.preFree[k][1] > last.preAllocs[last.id][1]
    /\ Len(free_blocks) <= Len(last.preFree)

\* C8: when evaluate returns, used, free, fragments and the allocation
\* count of the snapshot equal their values at the call.
C8_EvaluateKeepsSnapshot ==
    last.op = "evaluate" =>
        LET st == get_stats(free_blocks, allocations)
        IN /\ st.used = entryStats.used
           /\ st.free = entryStats.free
           /\ st.fragments = entryStats.fragments
           /\ st.allocations = entryStats.allocations

C8_Witness ==
    /\ last.op = "evaluate"
    /\ last.preAllocs # allocations
    /\ Len(last.preFree) # Len(free_blocks)
    /\ last.preNext # next_id
    /\ allocations # EmptyMap

C10_SplitExact ==
    AllocateDone =>
        \E i \in DOMAIN last.preFree :
            LET start == last.preFree[i][1]
                B == last.preFree[i][2]
                rest == {last.preFree[k] : k \in DOMAIN last.preFree \ {i}}
                added == IF B > last.size
                         THEN {<<start + last.size, B - last.size>>}
                         ELSE {}
            IN /\ B >= last.size
               /\ last.ret \notin DOMAIN last.preAllocs
               /\ DOMAIN allocations = DOMAIN last.preAllocs \cup {last.ret}
               /\ allocations[last.ret] = <<start, last.size>>
               /\ \A a \in DOMAIN last.preAllocs :
                     allocations[a] = last.preAllocs[a]
               /\ BlockSet(free_blocks) = rest \cup added
               /\ Len(free_blocks) = Len(last.preFree) - 1 + Cardinality(added)

C10_Witness ==
    /\ AllocateDone
    /\ Len(last.preFree) >= 2
    /\ Len(free_blocks) = Len(last.preFree) - 1
    /\ last.preAllocs # EmptyMap

C10_WitnessSplit ==
    /\ AllocateDone
    /\ Len(last.preFree) >= 2
    /\ Len(free_blocks) = Len(last.preFree)
    /\ last.best[1] < Len(last.preFree)

\* C11: a free of the id that the call just before it allocated leaves the
\* same total free space as before that allocate, and at most as many free
\* regions as before it.
C11_AllocateFreeRoundTrip ==
    (last.op = "free" /\ last.undo.on) =>
        /\ last.ret = TRUE
        /\ SumSizes(free_blocks) = last.undo.free
        /\ Len(free_blocks) <= last.undo.fragments

\* the allocate split a region, so the free had to coalesce the block with
\* the remainder it left
C11_Witness ==
    /\ last.op = "free"
    /\ last.undo.on
    /\ Len(last.preFree) = last.undo.fragments
    /\ Len(free_blocks) = last.undo.fragments
    /\ DOMAIN allocations # {}

\* C12: on a pristine arena (one free region covering it, nothing allocated)
\* allocate(total) succeeds with either strategy and leaves no free region,
\* and allocate(total + 1) returns NONE.
C12_PristineWholeArena ==
    (/\ last.op = "allocate"
     /\ last.preFree = <<<<0, total>>>>
     /\ DOMAIN last.preAllocs = {}) =>
        /\ last.size = total =>
              /\ last.ret # NONE
              /\ free_blocks = <<>>
              /\ allocations[last.ret] = <<0, total>>
        /\ last.size = total + 1 =>
              /\ last.ret = NONE
              /\ free_blocks = last.preFree

C12_Witness ==
    /\ last.op = "allocate"
    /\ last.preFree = <<<<0, total>>>>
    /\ DOMAIN last.preAllocs = {}
    /\ last.size = total
    /\ last.alg = "worst"
    /\ free_blocks = <<>>

C12_WitnessTooLarge ==
    /\ last.op = "allocate"
    /\ last.preFree = <<<<0, total>>>>
    /\ DOMAIN last.preAllocs = {}
    /\ last.size = total + 1
    /\ last.ret = NONE

DetermineDone ==
    last.op = "evaluate" /\ last.ctx = "determine" /\ last.alg = "worst"

C13_WitnessWorst ==
    /\ DetermineDone
    /\ best_algorithm = "worst"

\* the free list handed to the merge step by the operation just done
MergeInput ==
    IF last.op = "free"
    THEN Append(last.preFree, last.preAllocs[last.id])
    ELSE last.entry.fb

MergeDone == (last.op = "free" /\ last.ret = TRUE) \/ last.op = "evaluate"

\* C14: for every free list that reaches the merge step (in free and at the
\* end of evaluate), merging twice gives the same list as merging once, and
\* the list the operation leaves is that merged list.
C14_MergeIdempotent ==
    MergeDone =>
        /\ merge_blocks(merge_blocks(MergeInput)) = merge_blocks(MergeInput)
        /\ free_blocks = merge_blocks(MergeInput)

\* the freed block lies between two free regions: two merges in one pass
C14_Witness ==
    /\ last.op = "free"
    /\ last.ret = TRUE
    /\ Len(last.preFree) >= 2
    /\ Len(free_blocks) = Len(last.preFree) - 1

ScenarioCalls ==
    << <<"allocate", 30, "best">>, <<"allocate", 40, "best">>,
       <<"free", 1, "none">>, <<"allocate", 30, "worst">> >>

\* C15: on an arena of capacity 100, allocate(30, best) returns 1 and leaves
\* [(30,70)]; then allocate(40, best) returns 2 and leaves [(70,30)]; then
\* free(1) returns true and leaves [(0,30),(70,30)]; then allocate(30, worst)
\* returns 3 and 70 cells are in use.
C15_Scenario ==
    /\ trace = SubSeq(ScenarioCalls, 1, 1) =>
          last.ret = 1 /\ free_blocks = << <<30, 70>> >>
    /\ trace = SubSeq(ScenarioCalls, 1, 2) =>
          last.ret = 2 /\ free_blocks = << <<70, 30>> >>
    /\ trace = SubSeq(ScenarioCalls, 1, 3) =>
          last.ret = TRUE /\ free_blocks = << <<0, 30>>, <<70, 30>> >>
    /\ trace = ScenarioCalls =>
          /\ last.ret = 3
          /\ get_stats(free_blocks, allocations).used = 70

C15_Witness ==
    /\ total = 100
    /\ trace = ScenarioCalls
    /\ last.op = "allocate"
    /\ last.alg = "worst"
    /\ DOMAIN allocations = {2, 3}

\* C16: an allocate issued right after evaluate_algorithm returns the same
\* id and places the block at the same start address as the same allocate
\* issued from the state in which evaluate_algorithm was called, for every
\* size and either strategy.
C16_EvaluateUnobservable ==
    last.op = "evaluate" =>
        \A size \in 1..MaxSize, alg \in Algorithms :
            LET without == allocate(last.entry.fb, last.entry.al,
                                    last.entry.nid, size, alg)
                with == allocate(free_blocks, allocations, next_id, size, alg)
            IN /\ with.ret = without.ret
               /\ with.ret # NONE =>
                     with.al[with.ret][1] = without.al[without.ret][1]

\* C17: in the whole program allocate is never called with a size below 1:
\* do_allocate returns before the call when the entered size is not
\* positive, and run_test and evaluate_algorithm draw their sizes from the
\* fixed positive range.
C17_AllocateSizePositive ==
    /\ last.op = "allocate" => last.size >= 1
    /\ (last.op = "allocate" /\ last.ctx \in {"run_test", "eval"}) =>
          last.size \in EvalMinSize..EvalMaxSize
    /\ last.op = "rejected" => last.size <= 0

\* do_allocate turned away an entered size of zero
C17_Witness ==
    /\ last.op = "rejected"
    /\ last.ctx = "do_allocate"
    /\ last.size = 0
    /\ DOMAIN allocations # {}

\* C18: every run of evaluate_algorithm takes exactly EvalSteps steps, each
\* one allocation attempt or one free; a step taken with no live allocation
\* is an allocation attempt; every free inside a run names a live id and
\* returns true; and the successful allocations, the failed ones and the
\* frees of a run add up to EvalSteps.
C18_EvaluationSteps ==
    /\ pc = "eval" =>
          /\ operations <= EvalSteps
          /\ test_results.success + test_results.failed + evalFrees
               = operations
    /\ last.ctx = "eval" =>
          /\ last.op \in {"allocate", "free"}
          /\ DOMAIN last.preAllocs = {} => last.op = "allocate"
          /\ last.op = "free" =>
                /\ last.id \in DOMAIN last.preAllocs
                /\ last.ret = TRUE
    /\ last.op = "evaluate" =>
          /\ last.counts.ops = EvalSteps
          /\ last.counts.success + last.counts.failed + last.counts.frees
               = EvalSteps

\* a finished run that freed a live allocation
C18_Witness ==
    /\ last.op = "evaluate"
    /\ last.counts.frees >= 1
    /\ last.counts.ops = EvalSteps

\* a step of a run taken with nothing allocated
C18_WitnessEmpty ==
    /\ last.ctx = "eval"
    /\ DOMAIN last.preAllocs = {}
    /\ last.op = "allocate"

\* a run in which an allocation attempt failed
C18_WitnessFailed ==
    /\ last.op = "evaluate"
    /\ last.counts.failed >= 1

\* C19: every allocate issued by do_allocate or run_test is given the
\* preferred strategy of the moment; the preferred strategy is best-fit at
\* the start, and no operation other than the completion of
\* determine_best_algorithm changes it.
C19_CallerUsesPreferred ==
    /\ last.op = "init" => best_algorithm = "best"
    /\ (last.op = "allocate" /\ last.ctx \in {"do_allocate", "run_test"}) =>
          last.alg = last.prePreferred
    /\ ~DetermineDone => best_algorithm = last.prePreferred

\* run_test allocates with worst-fit after determine_best_algorithm chose it
C19_Witness ==
    /\ last.op = "allocate"
    /\ last.ctx = "run_test"
    /\ last.alg = "worst"
    /\ last.ret # NONE
    /\ best_algorithm = "worst"

C19_WitnessDoAllocate ==
    /\ last.op = "allocate"
    /\ last.ctx = "do_allocate"
    /\ last.alg = "worst"

\* C20: in every reachable state, also between the steps of an evaluation
\* run, no free region ends exactly where another free region starts.
C20_AlwaysCoalesced ==
    \A i, j \in DOMAIN free_blocks :
        free_blocks[i][1] + free_blocks[i][2] # free_blocks[j][1]

\* allocate split a region and appended the remainder behind a region that
\* starts after it, and nothing was merged
C20_Witness ==
    /\ AllocateDone
    /\ Len(free_blocks) >= 2
    /\ Len(free_blocks) = Len(last.preFree)
    /\ ~SortedByStart(free_blocks)

====
